---- MODULE Spec2Model ----
(***************************************************************************)
(* Collision broad phase of gunship-rs: the BoundingVolumeManager          *)
(* component store (src/src/component/collider/bounding_volume.rs) and the *)
(* GridCollisionSystem (src/src/component/collider/grid_collision.rs).     *)
(*                                                                         *)
(* f32 coordinates are modelled as integers (world units); isize cell      *)
(* coordinates as integers far from overflow.                              *)
(***************************************************************************)
EXTENDS Integers, Sequences, FiniteSets, TLC

VARIABLES
    components,          \* BoundingVolumeManager.components : Vec<BoundVolume>
    entities,            \* BoundingVolumeManager.entities   : Vec<Entity>
    indices,             \* BoundingVolumeManager.indices    : EntityMap<usize> (slots count from 1)
    marked_for_destroy,  \* BoundingVolumeManager.marked_for_destroy : EntitySet
    panicked,            \* TRUE once an assert!/unwrap() has aborted the step
    grid,                \* GridCollisionSystem.grid : GridCell -> Vec<(Entity, slot)>
    collisions,          \* GridCollisionSystem.collisions : HashSet<(Entity, Entity)>
    cell_size,           \* GridCollisionSystem.cell_size
    iter,                \* a GridIter being driven by next(), with the cells it has returned
    probe,               \* one application of BoundVolume::test to two volumes
    last_op              \* the call that produced the current state, with its arguments

vars == <<components, entities, indices, marked_for_destroy, panicked,
          grid, collisions, cell_size, iter, probe, last_op>>

storeVars == <<components, entities, indices, marked_for_destroy>>
gridVars  == <<grid, collisions, cell_size>>
harnessVars == <<iter, probe>>

-----------------------------------------------------------------------------
(* Bounds of the model *)

NumEntities == 3
MaxCoord == 4
MaxCell == 2

Entities == 1..NumEntities

(* cell_size of GridCollisionSystem::new() *)
DefaultCellSize == 1

(* the values the public field cell_size is set to *)
CellSizes == {2, 4}

(* the entities the collider provider yields in one pass are at most this   *)
(* many                                                                     *)
NumColliders == 2
NumStored == 4

-----------------------------------------------------------------------------
(* Geometry *)

Point(x, y, z) == [x |-> x, y |-> y, z |-> z]

Sphere(center, radius) == [tag |-> "Sphere", center |-> center, radius |-> radius]

(* from_collider with min and max exchanged *)
AABBFromColliderSwapped(cached_collider) ==
    LET center == cached_collider.center
        radius == cached_collider.radius
    IN  [min |-> Point(center.x + radius, center.y + radius, center.z + radius),
         max |-> Point(center.x - radius, center.y - radius, center.z - radius)]

AABBFromCollider(cached_collider) ==
    LET center == cached_collider.center
        radius == cached_collider.radius
    IN  [min |-> Point(center.x - radius, center.y - radius, center.z - radius),
         max |-> Point(center.x + radius, center.y + radius, center.z + radius)]

(* test_ranges that takes ranges sharing only an end point as disjoint *)
test_ranges_exclusive(first, second) ==
    LET min_a == first[1]
        max_a == first[2]
        min_b == second[1]
        max_b == second[2]
    IN  ~( min_a >= max_b
        \/ min_b >= max_a
        \/ max_a <= min_b
        \/ max_b <= min_a)

test_ranges(first, second) ==
    LET min_a == first[1]
        max_a == first[2]
        min_b == second[1]
        max_b == second[2]
    IN  ~( min_a > max_b
        \/ min_b > max_a
        \/ max_a < min_b
        \/ max_b < min_a)

test_aabb(self, other) ==
       test_ranges(<<self.min.x, self.max.x>>, <<other.min.x, other.max.x>>)
    /\ test_ranges(<<self.min.y, self.max.y>>, <<other.min.y, other.max.y>>)
    /\ test_ranges(<<self.min.z, self.max.z>>, <<other.min.z, other.max.z>>)

(* CachedCollider::test for two spheres: the centres are no further apart  *)
(* than the sum of the radii.                                              *)
CachedColliderTest(self, other) ==
    LET dx == self.center.x - other.center.x
        dy == self.center.y - other.center.y
        dz == self.center.z - other.center.z
        reach == self.radius + other.radius
    IN  dx * dx + dy * dy + dz * dz <= reach * reach

BoundVolume(entity, aabb, collider) ==
    [entity |-> entity, aabb |-> aabb, collider |-> collider]

(* BoundVolume::test: the AABB test is evaluated and its result dropped,   *)
(* then the collider test runs and decides.  collider_called records that  *)
(* self.collider.test was invoked.                                         *)
BoundVolumeTest(self, other) ==
    LET discarded == test_aabb(self.aabb, other.aabb)
    IN  [collider_called |-> TRUE,
         result |-> CachedColliderTest(self.collider, other.collider)]

-----------------------------------------------------------------------------
(* The volumes handed to assign.  A sphere volume is what bvh_update builds *)
(* (lines 177-194): a unit sphere centred on the line y = z = 2 with the    *)
(* aabb from_collider gives it.  A stale volume has the aabb of the sphere  *)
(* at one end of that line and the collider of the sphere at the other: the *)
(* public fields aabb and collider are independent.                         *)

Centers == {Point(x, 2, 2) : x \in 1..MaxCoord}

Radii == {1}

SphereVolumes(e) ==
    {BoundVolume(e, AABBFromCollider(Sphere(c, r)), Sphere(c, r)) :
        <<c, r>> \in Centers \X Radii}

StaleVolumes(e) ==
    {BoundVolume(e, AABBFromCollider(Sphere(ends[1], r)), Sphere(ends[2], r)) :
        <<ends, r>> \in {<<Point(1, 2, 2), Point(MaxCoord, 2, 2)>>,
                          <<Point(MaxCoord, 2, 2), Point(1, 2, 2)>>} \X Radii}

Volumes(e) == SphereVolumes(e) \cup StaleVolumes(e)

(* the sphere volumes at the two ends of the line: two distinct components  *)
(* per entity are what the store's operations can tell apart                *)
StoreVolumes(e) == {v \in SphereVolumes(e) : v.collider.center.x \in {1, MaxCoord}}

-----------------------------------------------------------------------------
(* BoundingVolumeManager *)

Store(c, e, i) == [components |-> c, entities |-> e, indices |-> i]

(* an empty HashMap *)
EmptyMap == [k \in {} |-> 0]

CurrentStore == Store(components, entities, indices)

(* the element of a one-element set; {F(v) : v \in {e}} evaluates e once   *)
Only(S) == CHOOSE x \in S : TRUE

None == [some |-> FALSE]
Some(v) == [some |-> TRUE, value |-> v]

Get(store, entity) ==
    IF entity \in DOMAIN store.indices
    THEN Some(store.components[store.indices[entity]])
    ELSE None

(* Vec::swap_remove(index): the last element takes the place of the one     *)
(* removed, the vector shrinks by one.                                      *)
swap_remove(v, index) ==
    LET n == Len(v)
    IN  [k \in 1..(n - 1) |-> IF k = index THEN v[n] ELSE v[k]]

(* destroy_immediate without the re-indexing of the moved entity (lines 85-88) *)
DestroyImmediateNoReindex(store, entity) ==
    LET index == store.indices[entity]
        removed == [k \in (DOMAIN store.indices) \ {entity} |-> store.indices[k]]
    IN  Store(swap_remove(store.components, index),
              swap_remove(store.entities, index), removed)

(* destroy_immediate with Vec::remove in place of swap_remove on components *)
DestroyImmediateShift(store, entity) ==
    LET index == store.indices[entity]
        removed == [k \in (DOMAIN store.indices) \ {entity} |-> store.indices[k]]
        ents == swap_remove(store.entities, index)
        moved == IF index # Len(ents) + 1
                 THEN [k \in DOMAIN removed \cup {ents[index]} |->
                          IF k = ents[index] THEN index ELSE removed[k]]
                 ELSE removed
        comps == [k \in 1..(Len(store.components) - 1) |->
                     IF k < index THEN store.components[k] ELSE store.components[k + 1]]
    IN  Store(comps, ents, moved)

(* destroy_immediate that pops the last component instead of swap-removing  *)
(* the one at the freed slot                                                *)
DestroyImmediatePop(store, entity) ==
    LET index == store.indices[entity]
        removed == [k \in DOMAIN store.indices \ {entity} |-> store.indices[k]]
        ents == swap_remove(store.entities, index)
        moved == IF index # Len(ents) + 1
                 THEN [k \in DOMAIN removed \cup {ents[index]} |->
                          IF k = ents[index] THEN index ELSE removed[k]]
                 ELSE removed
    IN  Store(SubSeq(store.components, 1, Len(store.components) - 1), ents, moved)

(* destroy_immediate with Vec::remove in place of swap_remove on entities:  *)
(* the owners behind the slot shift down while the last component moves in  *)
DestroyImmediateShiftEntities(store, entity) ==
    LET index == store.indices[entity]
        removed == [k \in (DOMAIN store.indices) \ {entity} |-> store.indices[k]]
        ents == [k \in 1..(Len(store.entities) - 1) |->
                    IF k < index THEN store.entities[k] ELSE store.entities[k + 1]]
        moved == IF index # Len(ents) + 1
                 THEN [k \in DOMAIN removed \cup {ents[index]} |->
                          IF k = ents[index] THEN index ELSE removed[k]]
                 ELSE removed
    IN  Store(swap_remove(store.components, index), ents, moved)

(* destroy_immediate that takes the early way out for the final slot and    *)
(* leaves the entity's entry in indices                                     *)
DestroyImmediateFinalStale(store, entity) ==
    LET index == store.indices[entity]
        removed == [k \in (DOMAIN store.indices) \ {entity} |-> store.indices[k]]
        ents == swap_remove(store.entities, index)
        moved == IF index # Len(ents) + 1
                 THEN [k \in DOMAIN removed \cup {ents[index]} |->
                          IF k = ents[index] THEN index ELSE removed[k]]
                 ELSE store.indices
    IN  Store(swap_remove(store.components, index), ents, moved)

DestroyImmediate(store, entity) ==
    LET index == store.indices[entity]
        removed == [k \in (DOMAIN store.indices) \ {entity} |-> store.indices[k]]
        ents == swap_remove(store.entities, index)
        moved == IF index # Len(ents) + 1
                 THEN [k \in DOMAIN removed \cup {ents[index]} |->
                          IF k = ents[index] THEN index ELSE removed[k]]
                 ELSE removed
    IN  Store(swap_remove(store.components, index), ents, moved)

(* HashSet::drain yields the marked entities in an order the code does not  *)
(* fix: every order is an outcome.  destroy_immediate of an entity that is  *)
(* not in indices fails at the unwrap() of line 77 before it changes        *)
(* anything, and the loop ends there with the store as the removals before  *)
(* it left it.                                                              *)
RECURSIVE DestroyMarkedOutcomes(_, _)
DestroyMarkedOutcomes(store, marked) ==
    IF marked = {}
    THEN {store}
    ELSE UNION {IF e \in DOMAIN store.indices
                THEN DestroyMarkedOutcomes(DestroyImmediate(store, e), marked \ {e})
                ELSE {store} :
                   e \in marked}

(* iter(): components.iter().zip(entities.iter()), the pairs a traversal    *)
(* yields, in order; the zip ends with the shorter vector                   *)
StoreIter(store) ==
    LET n == IF Len(store.components) <= Len(store.entities)
             THEN Len(store.components)
             ELSE Len(store.entities)
    IN  [i \in 1..n |-> <<store.components[i], store.entities[i]>>]

(* assign that inserts at the front of both vectors and records slot 1,     *)
(* leaving the recorded slots of the entities it shifted                    *)
AssignInsertFront(entity, component) ==
    /\ ~panicked
    /\ IF entity \in DOMAIN indices
       THEN /\ panicked' = TRUE
            /\ UNCHANGED <<components, entities, indices>>
       ELSE /\ components' = <<component>> \o components
            /\ entities' = <<entity>> \o entities
            /\ indices' = [k \in DOMAIN indices \cup {entity} |->
                              IF k = entity THEN 1 ELSE indices[k]]
            /\ UNCHANGED panicked
    /\ last_op' = [op |-> "assign", entity |-> entity]
    /\ UNCHANGED <<marked_for_destroy, gridVars, harnessVars>>

(* assign with the assert! placed after the pushes *)
AssignLateAssert(entity, component) ==
    /\ ~panicked
    /\ components' = Append(components, component)
    /\ entities' = Append(entities, entity)
    /\ indices' = [k \in DOMAIN indices \cup {entity} |->
                      IF k = entity THEN Len(components) + 1 ELSE indices[k]]
    /\ panicked' = (entity \in DOMAIN indices)
    /\ last_op' = [op |-> "assign", entity |-> entity]
    /\ UNCHANGED <<marked_for_destroy, gridVars, harnessVars>>

Assign(entity, component) ==
    /\ ~panicked
    /\ IF entity \in DOMAIN indices
       THEN /\ panicked' = TRUE
            /\ UNCHANGED <<components, entities, indices>>
       ELSE /\ components' = Append(components, component)
            /\ entities' = Append(entities, entity)
            /\ indices' = [k \in DOMAIN indices \cup {entity} |->
                              IF k = entity THEN Len(components) + 1 ELSE indices[k]]
            /\ UNCHANGED panicked
    /\ last_op' = [op |-> "assign", entity |-> entity]
    /\ UNCHANGED <<marked_for_destroy, gridVars, harnessVars>>

(* a call of the public destroy_immediate(entity): the unwrap() of line 77  *)
(* panics for an entity that is not in indices, before anything is changed; *)
(* the pending set is not touched                                           *)
DestroyImmediateCall(entity) ==
    /\ ~panicked
    /\ IF entity \in DOMAIN indices
       THEN /\ \E after \in {DestroyImmediate(CurrentStore, entity)} :
                  /\ components' = after.components
                  /\ entities' = after.entities
                  /\ indices' = after.indices
            /\ UNCHANGED panicked
       ELSE /\ panicked' = TRUE
            /\ UNCHANGED <<components, entities, indices>>
    /\ last_op' = [op |-> "destroy_immediate", entity |-> entity]
    /\ UNCHANGED <<marked_for_destroy, gridVars, harnessVars>>

(* a mark recorded whether or not the entity holds a component *)
MarkForDestroyUnchecked(store, marked, entity) ==
    marked \cup {entity}

(* a mark that a second request takes back *)
MarkForDestroyToggle(store, marked, entity) ==
    IF entity \in DOMAIN store.indices
    THEN (marked \ {entity}) \cup ({entity} \ marked)
    ELSE marked

(* the pending set after destroy_all(entity) *)
MarkForDestroy(store, marked, entity) ==
    IF entity \in DOMAIN store.indices
    THEN marked \cup {entity}
    ELSE marked

(* destroy_all that removes the component at once *)
DestroyAllNow(entity) ==
    /\ ~panicked
    /\ \E after \in {IF entity \in DOMAIN indices
                      THEN DestroyImmediate(CurrentStore, entity)
                      ELSE CurrentStore} :
          /\ components' = after.components
          /\ entities' = after.entities
          /\ indices' = after.indices
    /\ last_op' = [op |-> "destroy_all", entity |-> entity]
    /\ UNCHANGED <<marked_for_destroy, panicked, gridVars, harnessVars>>

DestroyAll(entity) ==
    /\ ~panicked
    /\ marked_for_destroy' = MarkForDestroy(CurrentStore, marked_for_destroy, entity)
    /\ last_op' = [op |-> "destroy_all", entity |-> entity]
    /\ UNCHANGED <<components, entities, indices, panicked, gridVars, harnessVars>>

(* destroy_marked that drains a copy of the pending set and leaves the set  *)
(* itself as it was                                                         *)
DestroyMarkedKeepPending ==
    /\ ~panicked
    /\ \E after \in DestroyMarkedOutcomes(CurrentStore, marked_for_destroy) :
          /\ components' = after.components
          /\ entities' = after.entities
          /\ indices' = after.indices
    /\ UNCHANGED marked_for_destroy
    /\ panicked' = ~(marked_for_destroy \subseteq DOMAIN indices)
    /\ last_op' = [op |-> "destroy_marked", marked |-> marked_for_destroy]
    /\ UNCHANGED <<gridVars, harnessVars>>

(* destroy_marked: the pending set is swapped for an empty one (lines       *)
(* 106-108) and drained; the drain reaches every marked entity, so the call *)
(* panics exactly when a marked entity is not in indices.                   *)
DestroyMarked ==
    /\ ~panicked
    /\ \E after \in DestroyMarkedOutcomes(CurrentStore, marked_for_destroy) :
          /\ components' = after.components
          /\ entities' = after.entities
          /\ indices' = after.indices
    /\ marked_for_destroy' = {}
    /\ panicked' = ~(marked_for_destroy \subseteq DOMAIN indices)
    /\ last_op' = [op |-> "destroy_marked", marked |-> marked_for_destroy]
    /\ UNCHANGED <<gridVars, harnessVars>>

(* get_mut hands out a mutable reference to the entity's component; the    *)
(* write through it that overwrites the last slot instead                   *)
GetMutWriteLast(entity, component) ==
    /\ ~panicked
    /\ IF entity \in DOMAIN indices
       THEN components' = [components EXCEPT ![Len(components)] = component]
       ELSE UNCHANGED components
    /\ last_op' = [op |-> "get_mut", wrote |-> entity \in DOMAIN indices]
    /\ UNCHANGED <<entities, indices, marked_for_destroy, panicked, gridVars, harnessVars>>

(* get_mut(entity) followed by the caller's write through the reference it  *)
(* returned, as bvh_update does at lines 182-187; None for an entity that   *)
(* holds no component, and then nothing is written                          *)
GetMutWrite(entity, component) ==
    /\ ~panicked
    /\ IF entity \in DOMAIN indices
       THEN components' = [components EXCEPT ![indices[entity]] = component]
       ELSE UNCHANGED components
    /\ last_op' = [op |-> "get_mut", wrote |-> entity \in DOMAIN indices]
    /\ UNCHANGED <<entities, indices, marked_for_destroy, panicked, gridVars, harnessVars>>

-----------------------------------------------------------------------------
(* bvh_update.  The collider provider and the transform provider belong to  *)
(* the scene, not to this component: each call finds them in some state,    *)
(* given here as the inputs `colliders` (entity to local collider),         *)
(* `transforms` (entity to world transform) and `order` (the order in which *)
(* collider_manager.iter() yields the entities).                            *)

Box == [tag |-> "Box"]

Mesh == [tag |-> "Mesh"]

Transform(position, scale) == [position |-> position, scale |-> scale]

(* CachedCollider::from_collider_transform for a sphere: the centre is      *)
(* scaled and moved by the transform, the radius scaled.                    *)
FromColliderTransform(collider, transform) ==
    Sphere(Point(transform.position.x + transform.scale * collider.center.x,
                 transform.position.y + transform.scale * collider.center.y,
                 transform.position.z + transform.scale * collider.center.z),
           collider.radius * transform.scale)

(* the shapes for which from_collider_transform and from_collider stop the  *)
(* program                                                                  *)
Unsupported(collider) == collider.tag \in {"Box", "Mesh"}

(* local colliders: the unit spheres that the transform below carries to    *)
(* the two ends of the line of Centers, and the two other shapes            *)
LocalColliders ==
    {Sphere(Point(0, 2, 2), r) : r \in Radii}
        \cup {Sphere(Point(MaxCoord - 1, 2, 2), r) : r \in Radii}
        \cup {Box, Mesh}

WorldTransform == Transform(Point(1, 0, 0), 1)

(* the store after the pushes and the insert of assign *)
Pushed(store, entity, component) ==
    Store(Append(store.components, component),
          Append(store.entities, entity),
          [k \in DOMAIN store.indices \cup {entity} |->
              IF k = entity THEN Len(store.components) + 1 ELSE store.indices[k]])

(* the loop body that refreshes the collider of an existing volume and      *)
(* leaves its aabb as it was                                                *)
BvhStepKeepAabb(st, entity, colliders, transforms) ==
    IF st.panicked
    THEN st
    ELSE IF entity \notin DOMAIN transforms
    THEN [st EXCEPT !.panicked = TRUE, !.failed = Some([entity |-> entity, cause |-> "transform"])]
    ELSE IF Unsupported(colliders[entity])
    THEN [st EXCEPT !.panicked = TRUE, !.failed = Some([entity |-> entity, cause |-> "shape"])]
    ELSE LET cached_collider == FromColliderTransform(colliders[entity], transforms[entity])
             aabb == AABBFromCollider(cached_collider)
         IN  IF entity \in DOMAIN st.store.indices
             THEN [st EXCEPT !.store.components[st.store.indices[entity]].collider =
                                 cached_collider,
                             !.updated = @ \cup {entity}]
             ELSE [st EXCEPT !.store = Pushed(@, entity,
                                              BoundVolume(entity, aabb, cached_collider)),
                             !.created = @ \cup {entity}]

(* the loop body that passes over a Box or Mesh collider and goes on *)
BvhStepSkipUnsupported(st, entity, colliders, transforms) ==
    IF st.panicked
    THEN st
    ELSE IF entity \notin DOMAIN transforms
    THEN [st EXCEPT !.panicked = TRUE, !.failed = Some([entity |-> entity, cause |-> "transform"])]
    ELSE IF Unsupported(colliders[entity])
    THEN st
    ELSE LET cached_collider == FromColliderTransform(colliders[entity], transforms[entity])
             aabb == AABBFromCollider(cached_collider)
         IN  IF entity \in DOMAIN st.store.indices
             THEN [st EXCEPT !.store.components[st.store.indices[entity]] =
                                 [@ EXCEPT !.collider = cached_collider, !.aabb = aabb],
                             !.updated = @ \cup {entity}]
             ELSE [st EXCEPT !.store = Pushed(@, entity,
                                              BoundVolume(entity, aabb, cached_collider)),
                             !.created = @ \cup {entity}]

(* the loop body that passes over an entity without transform and goes on *)
BvhStepSkipMissing(st, entity, colliders, transforms) ==
    IF st.panicked
    THEN st
    ELSE IF entity \notin DOMAIN transforms
    THEN st
    ELSE IF Unsupported(colliders[entity])
    THEN [st EXCEPT !.panicked = TRUE, !.failed = Some([entity |-> entity, cause |-> "shape"])]
    ELSE LET cached_collider == FromColliderTransform(colliders[entity], transforms[entity])
             aabb == AABBFromCollider(cached_collider)
         IN  IF entity \in DOMAIN st.store.indices
             THEN [st EXCEPT !.store.components[st.store.indices[entity]] =
                                 [@ EXCEPT !.collider = cached_collider, !.aabb = aabb],
                             !.updated = @ \cup {entity}]
             ELSE [st EXCEPT !.store = Pushed(@, entity,
                                              BoundVolume(entity, aabb, cached_collider)),
                             !.created = @ \cup {entity}]

(* Body of the loop of bvh_update (lines 175-195) for one entity.  st holds *)
(* the store, whether the program has stopped and at which entity and for   *)
(* what, and the entities given a new volume or an overwritten one so far.  *)
(* A missing transform (line 176) and a Box or Mesh collider (lines 177 and *)
(* 178) stop the program before the store is touched.                       *)
BvhStep(st, entity, colliders, transforms) ==
    IF st.panicked
    THEN st
    ELSE IF entity \notin DOMAIN transforms
    THEN [st EXCEPT !.panicked = TRUE, !.failed = Some([entity |-> entity, cause |-> "transform"])]
    ELSE IF Unsupported(colliders[entity])
    THEN [st EXCEPT !.panicked = TRUE, !.failed = Some([entity |-> entity, cause |-> "shape"])]
    ELSE LET cached_collider == FromColliderTransform(colliders[entity], transforms[entity])
             aabb == AABBFromCollider(cached_collider)
         IN  IF entity \in DOMAIN st.store.indices
             THEN [st EXCEPT !.store.components[st.store.indices[entity]] =
                                 [@ EXCEPT !.collider = cached_collider, !.aabb = aabb],
                             !.updated = @ \cup {entity}]
             ELSE [st EXCEPT !.store = Pushed(@, entity,
                                              BoundVolume(entity, aabb, cached_collider)),
                             !.created = @ \cup {entity}]

RECURSIVE BvhLoop(_, _, _, _, _)
BvhLoop(st, colliders, transforms, order, k) ==
    IF k > Len(order)
    THEN st
    ELSE Only({BvhLoop(after, colliders, transforms, order, k + 1) :
                  after \in {BvhStep(st, order[k], colliders, transforms)}})

(* the store without the entities the collider provider does not yield *)
Pruned(store, colliders) ==
    Only({CHOOSE after \in DestroyMarkedOutcomes(store, gone) : TRUE :
             gone \in {DOMAIN store.indices \ DOMAIN colliders}})

(* a rebuild pass that first drops the volumes of entities that have no     *)
(* collider any more                                                        *)
BvhRunPruning(store, colliders, transforms, order) ==
    BvhLoop([store |-> Pruned(store, colliders), panicked |-> FALSE, failed |-> None,
             created |-> {}, updated |-> {}],
            colliders, transforms, order, 1)

(* bvh_update from start to return or to the failure that ends it *)
BvhRun(store, colliders, transforms, order) ==
    BvhLoop([store |-> store, panicked |-> FALSE, failed |-> None,
             created |-> {}, updated |-> {}],
            colliders, transforms, order, 1)

BvhUpdate(colliders, transforms, order) ==
    /\ ~panicked
    /\ \E out \in {BvhRun(CurrentStore, colliders, transforms, order)} :
          /\ components' = out.store.components
          /\ entities' = out.store.entities
          /\ indices' = out.store.indices
          /\ panicked' = out.panicked
          /\ last_op' = [op |-> "bvh_update", created |-> out.created,
                         updated |-> out.updated, failed |-> out.failed]
    /\ UNCHANGED <<marked_for_destroy, gridVars, harnessVars>>

-----------------------------------------------------------------------------
(* GridCollisionSystem *)

GridCell(x, y, z) == [x |-> x, y |-> y, z |-> z]

(* world_to_grid with the quotient cut toward zero, a cast without floor() *)
world_to_grid_truncating(size, point) ==
    GridCell(IF point.x >= 0 THEN point.x \div size ELSE -((-point.x) \div size),
             IF point.y >= 0 THEN point.y \div size ELSE -((-point.y) \div size),
             IF point.z >= 0 THEN point.z \div size ELSE -((-point.z) \div size))

(* (coordinate / cell_size).floor() as isize: \div is the floor of the      *)
(* quotient for a positive divisor                                          *)
world_to_grid(size, point) ==
    GridCell(point.x \div size, point.y \div size, point.z \div size)

iter_to(self, dest) == [from |-> self, to |-> dest, next |-> self]

(* next() that starts over from `from` where the code returns None *)
GridIterNextWrapping(it) ==
    LET from == it.from
        to == it.to
        next == it.next
    IN  IF next.z >= to.z
        THEN IF next.y >= to.y
             THEN IF next.x >= to.x
                  THEN [item |-> Some(next), iter |-> [it EXCEPT !.next = from]]
                  ELSE [item |-> Some(next),
                        iter |-> [it EXCEPT !.next = GridCell(next.x + 1, from.y, from.z)]]
             ELSE [item |-> Some(next),
                   iter |-> [it EXCEPT !.next = GridCell(next.x, next.y + 1, from.z)]]
        ELSE [item |-> Some(next),
              iter |-> [it EXCEPT !.next = GridCell(next.x, next.y, next.z + 1)]]

(* next() that advances x first, then y, then z *)
GridIterNextXFastest(it) ==
    LET from == it.from
        to == it.to
        next == it.next
    IN  IF next.x >= to.x
        THEN IF next.y >= to.y
             THEN IF next.z >= to.z
                  THEN [item |-> None, iter |-> it]
                  ELSE [item |-> Some(next),
                        iter |-> [it EXCEPT !.next = GridCell(from.x, from.y, next.z + 1)]]
             ELSE [item |-> Some(next),
                   iter |-> [it EXCEPT !.next = GridCell(from.x, next.y + 1, next.z)]]
        ELSE [item |-> Some(next),
              iter |-> [it EXCEPT !.next = GridCell(next.x + 1, next.y, next.z)]]

(* GridIter::next: the item returned and the iterator afterwards.  The      *)
(* successor of self.next is computed first; when there is none the call    *)
(* returns None at once, otherwise it stores the successor and returns the  *)
(* cell self.next held.                                                     *)
GridIterNext(it) ==
    LET from == it.from
        to == it.to
        next == it.next
    IN  IF next.z >= to.z
        THEN IF next.y >= to.y
             THEN IF next.x >= to.x
                  THEN [item |-> None, iter |-> it]
                  ELSE [item |-> Some(next),
                        iter |-> [it EXCEPT !.next = GridCell(next.x + 1, from.y, from.z)]]
             ELSE [item |-> Some(next),
                   iter |-> [it EXCEPT !.next = GridCell(next.x, next.y + 1, from.z)]]
        ELSE [item |-> Some(next),
              iter |-> [it EXCEPT !.next = GridCell(next.x, next.y, next.z + 1)]]

(* the cells a for loop over the iterator visits, in order *)
RECURSIVE IterCells(_)
IterCells(it) ==
    Only({IF r.item.some THEN <<r.item.value>> \o IterCells(r.iter) ELSE <<>> :
             r \in {GridIterNext(it)}})

(* the inner loop body recording a hit in both orientations *)
UpdateCellBothWays(st, slot, test_cell) ==
    LET bvh == components[slot]
        entity == bvh.entity
    IN  IF test_cell \in DOMAIN st.grid
        THEN LET cell == st.grid[test_cell]
                 found == {k \in 1..Len(cell) :
                              BoundVolumeTest(bvh, components[cell[k][2]]).result}
                 hits == {<<entity, cell[k][1]>> : k \in found}
                            \cup {<<cell[k][1], entity>> : k \in found}
             IN  [grid |-> [st.grid EXCEPT ![test_cell] = Append(cell, <<entity, slot>>)],
                  collisions |-> st.collisions \cup hits]
        ELSE [grid |-> [c \in DOMAIN st.grid \cup {test_cell} |->
                           IF c = test_cell THEN <<<<entity, slot>>>> ELSE st.grid[c]],
              collisions |-> st.collisions]

(* the inner loop body testing the volume against the first occupant of the *)
(* cell only                                                                *)
UpdateCellFirstOccupant(st, slot, test_cell) ==
    LET bvh == components[slot]
        entity == bvh.entity
    IN  IF test_cell \in DOMAIN st.grid
        THEN LET cell == st.grid[test_cell]
                 hits == {<<entity, cell[k][1]>> : k \in
                            {j \in 1..Len(cell) :
                                /\ j = 1
                                /\ BoundVolumeTest(bvh, components[cell[j][2]]).result}}
             IN  [grid |-> [st.grid EXCEPT ![test_cell] = Append(cell, <<entity, slot>>)],
                  collisions |-> st.collisions \cup hits]
        ELSE [grid |-> [c \in DOMAIN st.grid \cup {test_cell} |->
                           IF c = test_cell THEN <<<<entity, slot>>>> ELSE st.grid[c]],
              collisions |-> st.collisions]

(* the inner loop body pushing the volume into the cell before the tests,   *)
(* so that it is tested against itself as well                              *)
UpdateCellPushFirst(st, slot, test_cell) ==
    LET bvh == components[slot]
        entity == bvh.entity
    IN  IF test_cell \in DOMAIN st.grid
        THEN LET cell == Append(st.grid[test_cell], <<entity, slot>>)
                 hits == {<<entity, cell[k][1]>> : k \in
                            {j \in 1..Len(cell) :
                                BoundVolumeTest(bvh, components[cell[j][2]]).result}}
             IN  [grid |-> [st.grid EXCEPT ![test_cell] = cell],
                  collisions |-> st.collisions \cup hits]
        ELSE [grid |-> [c \in DOMAIN st.grid \cup {test_cell} |->
                           IF c = test_cell THEN <<<<entity, slot>>>> ELSE st.grid[c]],
              collisions |-> st.collisions]

(* Body of the inner loop of update (lines 69-93) for the volume in `slot`  *)
(* and one cell.  st holds the grid and the collision set built so far; a   *)
(* cell entry <<entity, slot>> stands for (Entity, *const BoundVolume), the *)
(* pointer being the address of components[slot].                           *)
UpdateCell(st, slot, test_cell) ==
    LET bvh == components[slot]
        entity == bvh.entity
    IN  IF test_cell \in DOMAIN st.grid
        THEN LET cell == st.grid[test_cell]
                 hits == {<<entity, cell[k][1]>> : k \in
                            {j \in 1..Len(cell) :
                                BoundVolumeTest(bvh, components[cell[j][2]]).result}}
             IN  [grid |-> [st.grid EXCEPT ![test_cell] = Append(cell, <<entity, slot>>)],
                  collisions |-> st.collisions \cup hits]
        ELSE [grid |-> [c \in DOMAIN st.grid \cup {test_cell} |->
                           IF c = test_cell THEN <<<<entity, slot>>>> ELSE st.grid[c]],
              collisions |-> st.collisions]

RECURSIVE UpdateCells(_, _, _, _)
UpdateCells(st, slot, cells, k) ==
    IF k > Len(cells)
    THEN st
    ELSE Only({UpdateCells(after, slot, cells, k + 1) :
                  after \in {UpdateCell(st, slot, cells[k])}})

(* the outer loop body passing over volumes whose entity is pending removal *)
UpdateVolumeSkipMarked(st, slot) ==
    LET aabb == components[slot].aabb
        min_cell == world_to_grid(cell_size, aabb.min)
        max_cell == world_to_grid(cell_size, aabb.max)
    IN  IF components[slot].entity \in marked_for_destroy
        THEN st
        ELSE Only({UpdateCells(st, slot, cells, 1) :
                      cells \in {IterCells(iter_to(min_cell, max_cell))}})

(* Body of the outer loop of update (lines 57-94) for the volume in `slot` *)
UpdateVolume(st, slot) ==
    LET aabb == components[slot].aabb
        min_cell == world_to_grid(cell_size, aabb.min)
        max_cell == world_to_grid(cell_size, aabb.max)
    IN  Only({UpdateCells(st, slot, cells, 1) :
                 cells \in {IterCells(iter_to(min_cell, max_cell))}})

RECURSIVE UpdateVolumes(_, _)
UpdateVolumes(st, slot) ==
    IF slot > Len(components)
    THEN st
    ELSE Only({UpdateVolumes(after, slot + 1) : after \in {UpdateVolume(st, slot)}})

(* update without the clear of line 54: last frame's pairs stay *)
UpdatePopulatedNoClear == UpdateVolumes([grid |-> grid, collisions |-> collisions], 1)

(* the grid and the collision set when the outer loop has ended, before     *)
(* the cells are cleared                                                    *)
UpdatePopulated == UpdateVolumes([grid |-> grid, collisions |-> {}], 1)

(* update without the final pass of lines 98-100 that empties the cells *)
GridUpdateKeepCells ==
    /\ ~panicked
    /\ \E st \in {UpdatePopulated} :
          /\ collisions' = st.collisions
          /\ grid' = st.grid
          /\ last_op' = [op |-> "update", dropped |-> collisions \ st.collisions # {}]
    /\ UNCHANGED <<storeVars, panicked, cell_size, harnessVars>>

GridUpdate ==
    /\ ~panicked
    /\ \E st \in {UpdatePopulated} :
          /\ collisions' = st.collisions
          /\ grid' = [c \in DOMAIN st.grid |-> <<>>]
          /\ last_op' = [op |-> "update", dropped |-> collisions \ st.collisions # {}]
    /\ UNCHANGED <<storeVars, panicked, cell_size, harnessVars>>

(* the value GridCollisionSystem::new() returns *)
GridCollisionSystemNew ==
    [grid |-> EmptyMap, collisions |-> {}, cell_size |-> DefaultCellSize]

(* the clone a derived Clone would give: a copy of each field *)
GridCloneFieldwise ==
    /\ ~panicked
    /\ probe' = [some |-> TRUE,
                 out |-> [grid |-> grid, collisions |-> collisions, cell_size |-> cell_size]]
    /\ last_op' = [op |-> "clone"]
    /\ UNCHANGED <<storeVars, panicked, gridVars, iter>>

(* clone(&self): the source is only borrowed and not read; the clone handed *)
(* to the caller is kept in probe                                           *)
GridClone ==
    /\ ~panicked
    /\ probe' = [some |-> TRUE, out |-> GridCollisionSystemNew]
    /\ last_op' = [op |-> "clone"]
    /\ UNCHANGED <<storeVars, panicked, gridVars, iter>>

(* the owner of the system sets the public field cell_size *)
SetCellSize(size) ==
    /\ ~panicked
    /\ cell_size' = size
    /\ last_op' = [op |-> "set_cell_size"]
    /\ UNCHANGED <<storeVars, panicked, grid, collisions, harnessVars>>

-----------------------------------------------------------------------------

(* BoundingVolumeManager::new() and GridCollisionSystem::new() *)
InitSystem ==
    /\ components = <<>>
    /\ entities = <<>>
    /\ indices = EmptyMap
    /\ marked_for_destroy = {}
    /\ panicked = FALSE
    /\ grid = EmptyMap
    /\ collisions = {}
    /\ cell_size = DefaultCellSize
    /\ last_op = [op |-> "new"]

Init ==
    /\ InitSystem
    /\ iter = None
    /\ probe = None

(* The component store: assign, destroy_all and destroy_marked in any order *)
Next ==
    \/ \E e \in Entities : \E c \in StoreVolumes(e) : Assign(e, c)
    \/ \E e \in Entities : DestroyAll(e)
    \/ DestroyMarked

Spec == Init /\ [][Next]_vars

(* The broad phase over every store content: assign builds the store (any  *)
(* sequence of volumes of distinct entities is a sequence of assigns), the  *)
(* owner configures cell_size, update runs.                                 *)
NextGrid ==
    \/ \E e \in Entities \ DOMAIN indices : \E c \in Volumes(e) : Assign(e, c)
    \/ \E size \in CellSizes : SetCellSize(size)
    \/ GridUpdate

(* The store with its accessors: the operations of Spec and writes through  *)
(* get_mut                                                                  *)
NextAccess ==
    \/ Next
    \/ \E e \in Entities : \E c \in StoreVolumes(e) : GetMutWrite(e, c)

SpecAccess == Init /\ [][NextAccess]_vars

SpecGrid == Init /\ [][NextGrid]_vars

(* Frames of a running scene.  Entity handles are only hashed and compared  *)
(* for equality, so a store is, up to the names of its entities, its        *)
(* sequence of volumes: here the k-th assign is to entity k.  Between       *)
(* updates volumes are added, moved through get_mut, and cell_size is set.  *)
NextFrames ==
    \/ /\ Len(entities) < NumEntities
       /\ \E c \in SphereVolumes(Len(entities) + 1) : Assign(Len(entities) + 1, c)
    \/ \E e \in Entities : \E c \in SphereVolumes(e) : GetMutWrite(e, c)
    \/ \E size \in CellSizes : SetCellSize(size)
    \/ GridUpdate

SpecFrames == Init /\ [][NextFrames]_vars

(* A scene whose store gains and loses volumes between the updates of the  *)
(* grid: assign to entities that hold no volume, destroy_all,               *)
(* destroy_marked and update.                                               *)
NextScene ==
    \/ \E e \in Entities \ DOMAIN indices : \E c \in StoreVolumes(e) : Assign(e, c)
    \/ \E e \in Entities : DestroyAll(e)
    \/ DestroyMarked
    \/ GridUpdate

SpecScene == Init /\ [][NextScene]_vars

(* The store of an owner that hands out entities smallest free handle       *)
(* first: an entity whose component was removed is the next to be assigned, *)
(* so the order of the entities array tells which were removed and assigned *)
(* again.                                                                   *)
NextRecycle ==
    \/ \E e \in Entities \ DOMAIN indices :
          /\ \A o \in Entities \ DOMAIN indices : e <= o
          /\ \E c \in StoreVolumes(e) : Assign(e, c)
    \/ \E e \in Entities : DestroyAll(e)
    \/ DestroyMarked

SpecRecycle == Init /\ [][NextRecycle]_vars

(* A system in use that is cloned: volumes are assigned, cell_size is set,   *)
(* update runs, and clone is called at any point.                           *)
NextClone ==
    \/ \E e \in Entities \ DOMAIN indices :
          /\ \A o \in Entities \ DOMAIN indices : e <= o
          /\ \E c \in StoreVolumes(e) : Assign(e, c)
    \/ \E size \in CellSizes : SetCellSize(size)
    \/ GridUpdate
    \/ GridClone

SpecClone == Init /\ [][NextClone]_vars

(* The store with every public operation that changes it: those of Spec and *)
(* destroy_immediate, which is pub.                                         *)
NextImmediate ==
    \/ Next
    \/ \E e \in Entities : DestroyImmediateCall(e)

SpecImmediate == Init /\ [][NextImmediate]_vars

(* The store filled to NumStored entities, handed out smallest free handle  *)
(* first, so that a flush of several entities leaves several: the orders of *)
(* the drain then leave the survivors in different slots.                   *)
NextDrain ==
    \/ \E e \in (1..NumStored) \ DOMAIN indices :
          /\ \A o \in (1..NumStored) \ DOMAIN indices : e <= o
          /\ \E c \in StoreVolumes(e) : Assign(e, c)
    \/ \E e \in 1..NumStored : DestroyAll(e)
    \/ DestroyMarked

SpecDrain == Init /\ [][NextDrain]_vars

(* The states of the collider provider: at most NumColliders entities have  *)
(* a collider.                                                              *)
ColliderStates ==
    UNION {[D -> LocalColliders] :
              D \in {D \in SUBSET Entities : Cardinality(D) <= NumColliders}}

(* the states of the transform provider in which the entities of `missing`  *)
(* have no transform                                                        *)
TransformState(missing) == [e \in Entities \ missing |-> WorldTransform]

(* the orders in which an iterator can yield the entities of D *)
Orders(D) ==
    {order \in [1..Cardinality(D) -> D] :
        \A i, j \in 1..Cardinality(D) : order[i] = order[j] => i = j}

(* Frames of the bounding-volume pass: bvh_update over any provider state,  *)
(* destroy_all and destroy_marked between the passes.                       *)
NextBvh ==
    \/ \E colliders \in ColliderStates :
          \E missing \in SUBSET DOMAIN colliders, order \in Orders(DOMAIN colliders) :
              BvhUpdate(colliders, TransformState(missing), order)
    \/ \E e \in Entities : DestroyAll(e)
    \/ DestroyMarked

SpecBvh == Init /\ [][NextBvh]_vars

-----------------------------------------------------------------------------
(* GridIter driven call by call: min_cell.iter_to(max_cell), then next()    *)
(* until, and after, it returns None.                                       *)

Cells == {GridCell(x, y, z) : <<x, y, z>> \in (0..MaxCell) \X (0..MaxCell) \X (0..MaxCell)}

InitIter ==
    /\ InitSystem
    /\ probe = None
    /\ \E from \in Cells, to \in Cells :
          iter = [some |-> TRUE, it |-> iter_to(from, to), yielded |-> <<>>, done |-> FALSE]

IterNext ==
    /\ iter.some
    /\ \E r \in {GridIterNext(iter.it)} :
          iter' = [iter EXCEPT !.it = r.iter,
                               !.yielded = IF r.item.some THEN Append(@, r.item.value) ELSE @,
                               !.done = ~r.item.some]
    /\ last_op' = [op |-> "next"]
    /\ UNCHANGED <<storeVars, panicked, gridVars, probe>>

SpecIter == InitIter /\ [][IterNext]_vars

(* the for loop of line 69 calls next() again as long as it returned a cell *)
SpecIterFair == SpecIter /\ WF_vars(IterNext)

-----------------------------------------------------------------------------
(* BoundVolume::test applied to two volumes *)

ProbeTest(self, other) ==
    /\ probe' = [some |-> TRUE, self |-> self, other |-> other,
                 out |-> BoundVolumeTest(self, other)]
    /\ last_op' = [op |-> "test"]
    /\ UNCHANGED <<storeVars, panicked, gridVars, iter>>

NextProbe ==
    \E a \in Entities, b \in Entities :
        \E self \in Volumes(a), other \in Volumes(b) : ProbeTest(self, other)

SpecProbe == Init /\ [][NextProbe]_vars

-----------------------------------------------------------------------------
(* AABB::from_collider called on one sphere after another *)

ProbeSpheres ==
    {Sphere(Point(x, y, z), r) :
        <<x, y, z, r>> \in (-MaxCell..MaxCell) \X (-MaxCell..MaxCell)
                              \X (-MaxCell..MaxCell) \X (0..MaxCell)}

ProbeFromCollider(cached_collider) ==
    /\ probe' = [some |-> TRUE, collider |-> cached_collider,
                 out |-> AABBFromCollider(cached_collider)]
    /\ last_op' = [op |-> "from_collider"]
    /\ UNCHANGED <<storeVars, panicked, gridVars, iter>>

(* the boxes test_aabb is probed with: min <= max on every axis, corners on *)
(* the lattice 0..MaxCell                                                   *)
ProbeBoxes ==
    {[min |-> Point(lo[1], lo[2], lo[3]), max |-> Point(hi[1], hi[2], hi[3])] :
        <<lo, hi>> \in {c \in ((0..MaxCell) \X (0..MaxCell) \X (0..MaxCell))
                               \X ((0..MaxCell) \X (0..MaxCell) \X (0..MaxCell)) :
                           \A axis \in 1..3 : c[1][axis] <= c[2][axis]}}

(* a fresh system and a pair of boxes to test *)
InitOverlap ==
    /\ InitSystem
    /\ iter = None
    /\ \E self \in ProbeBoxes, other \in ProbeBoxes :
          probe = [some |-> FALSE, self |-> self, other |-> other]

(* self.test_aabb(&other) and other.test_aabb(&self) *)
ProbeTestAabb ==
    /\ ~probe.some
    /\ probe' = [some |-> TRUE, self |-> probe.self, other |-> probe.other,
                 out |-> test_aabb(probe.self, probe.other),
                 back |-> test_aabb(probe.other, probe.self)]
    /\ last_op' = [op |-> "test_aabb"]
    /\ UNCHANGED <<storeVars, panicked, gridVars, iter>>

SpecOverlap == InitOverlap /\ [][ProbeTestAabb]_vars

NextAabb == \E cached_collider \in ProbeSpheres : ProbeFromCollider(cached_collider)

SpecAabb == Init /\ [][NextAabb]_vars

-----------------------------------------------------------------------------
(* world_to_grid called on a point.  Coordinates and cell sizes are whole   *)
(* multiples of one unit of length; with the unit taken as one half, the    *)
(* point (1.5, -0.5, 2.0) is (3, -1, 4) and the cell size 1.0 is 2.         *)

ProbePoints ==
    {Point(x, y, z) :
        <<x, y, z>> \in (-MaxCoord..MaxCoord) \X (-MaxCoord..MaxCoord)
                           \X (-MaxCoord..MaxCoord)}

(* a system with some cell_size and the point handed to world_to_grid *)
InitCell ==
    /\ components = <<>>
    /\ entities = <<>>
    /\ indices = EmptyMap
    /\ marked_for_destroy = {}
    /\ panicked = FALSE
    /\ grid = EmptyMap
    /\ collisions = {}
    /\ cell_size \in CellSizes \cup {DefaultCellSize}
    /\ last_op = [op |-> "new"]
    /\ iter = None
    /\ \E point \in ProbePoints : probe = [some |-> FALSE, point |-> point]

ProbeWorldToGrid ==
    /\ ~probe.some
    /\ probe' = [some |-> TRUE, size |-> cell_size, point |-> probe.point,
                 out |-> world_to_grid(cell_size, probe.point)]
    /\ last_op' = [op |-> "world_to_grid"]
    /\ UNCHANGED <<storeVars, panicked, gridVars, iter>>

SpecCell == InitCell /\ [][ProbeWorldToGrid]_vars

-----------------------------------------------------------------------------
(* Properties of the component store, under Spec *)

Slots == 1..Len(entities)

(* C1: after any sequence of assign, destroy_all and destroy_marked the     *)
(* entities and components arrays have equal length, indices has exactly    *)
(* one entry per stored entity, indices[entities[i]] = i for every slot i,  *)
(* and no entity occupies two slots.                                        *)
C1_StoreConsistent ==
    /\ Len(entities) = Len(components)
    /\ DOMAIN indices = {entities[i] : i \in Slots}
    /\ Cardinality(DOMAIN indices) = Len(entities)
    /\ \A i \in Slots : entities[i] \in DOMAIN indices /\ indices[entities[i]] = i
    /\ \A i \in Slots, j \in Slots : entities[i] = entities[j] => i = j

(* a flush has removed entity 1 from slot 1 of three and moved entity 3 there *)
C1_Witness ==
    /\ last_op = [op |-> "destroy_marked", marked |-> {1}]
    /\ entities = <<3, 2>>

(* C6: destroy_marked removes exactly the entities marked since the last    *)
(* flush: afterwards get(e) is None for every marked e, the length has      *)
(* dropped by the number of marked entities, and every unmarked entity is   *)
(* still present with its component unchanged.                              *)
C6_FlushRemovesExactlyMarked ==
    [][DestroyMarked =>
          /\ \A e \in marked_for_destroy : ~Get(CurrentStore', e).some
          /\ Len(components') = Len(components) - Cardinality(marked_for_destroy)
          /\ Len(entities') = Len(entities) - Cardinality(marked_for_destroy)
          /\ \A e \in Entities \ marked_for_destroy :
                Get(CurrentStore', e) = Get(CurrentStore, e)]_vars

(* a flush of two marked entities has left the third *)
C6_Witness ==
    /\ last_op.op = "destroy_marked"
    /\ Cardinality(last_op.marked) = 2
    /\ Len(entities) = 1
    /\ Get(CurrentStore, entities[1]).some

(* C7: destroy_all(e) changes nothing but the pending set, and until the    *)
(* next destroy_marked a marked entity keeps its slot's component: get(e)   *)
(* returns it and the entity arrays still hold e.                           *)
C7_MarkOnly ==
    [][/\ \A e \in Entities :
             DestroyAll(e) => /\ UNCHANGED <<components, entities, indices>>
                              /\ Get(CurrentStore', e) = Get(CurrentStore, e)
       /\ \A e \in marked_for_destroy :
             /\ Get(CurrentStore, e).some
             /\ \E i \in Slots : entities[i] = e
             /\ ~DestroyMarked => Get(CurrentStore', e) = Get(CurrentStore, e)]_vars

(* entity e has just been marked and is still stored *)
C7_Witness ==
    /\ last_op.op = "destroy_all"
    /\ last_op.entity \in marked_for_destroy
    /\ Get(CurrentStore, last_op.entity).some
    /\ Len(entities) = NumEntities

(* C8: destroy_all is idempotent: in every store state and for every entity *)
(* e, the pending set after destroy_all(e); destroy_all(e) is the pending   *)
(* set after one destroy_all(e), and so are the stores the next             *)
(* destroy_marked can leave.                                                *)
C8_MarkIdempotent ==
    \A e \in Entities :
        LET once == MarkForDestroy(CurrentStore, marked_for_destroy, e)
            twice == MarkForDestroy(CurrentStore, once, e)
        IN  /\ twice = once
            /\ DestroyMarkedOutcomes(CurrentStore, twice)
                  = DestroyMarkedOutcomes(CurrentStore, once)

(* destroy_all(e) has been called on a stored entity, with another entity   *)
(* already pending                                                          *)
C8_Witness ==
    /\ last_op.op = "destroy_all"
    /\ last_op.entity \in marked_for_destroy
    /\ Cardinality(marked_for_destroy) = 2

(* C9: assign(e, c) for an entity that already holds a component fails, and *)
(* fails before any mutation: components, entities and indices are left as  *)
(* they were.                                                               *)
C9_DoubleAssignFailsClean ==
    [][\A e \in DOMAIN indices : \A c \in StoreVolumes(e) :
          Assign(e, c) => /\ panicked'
                          /\ UNCHANGED <<components, entities, indices, marked_for_destroy>>]_vars

(* a second assign to a stored entity has aborted *)
C9_Witness ==
    /\ panicked
    /\ last_op.op = "assign"
    /\ last_op.entity \in DOMAIN indices
    /\ Len(entities) = 2

-----------------------------------------------------------------------------
(* Properties of GridIter, under SpecIter *)

CellLeq(a, b) == a.x <= b.x /\ a.y <= b.y /\ a.z <= b.z

Cuboid(from, to) ==
    {GridCell(x, y, z) : <<x, y, z>> \in (from.x..to.x) \X (from.y..to.y) \X (from.z..to.z)}

(* C3: for min_cell <= max_cell on every axis, min_cell.iter_to(max_cell)   *)
(* yields every cell of the inclusive cuboid [min_cell, max_cell] exactly   *)
(* once and no other cell.                                                  *)
C3_IterYieldsInclusiveCuboid ==
    (iter.some /\ iter.done /\ CellLeq(iter.it.from, iter.it.to)) =>
        /\ {iter.yielded[k] : k \in 1..Len(iter.yielded)} = Cuboid(iter.it.from, iter.it.to)
        /\ Len(iter.yielded) = Cardinality(Cuboid(iter.it.from, iter.it.to))

-----------------------------------------------------------------------------
(* Properties of BoundVolume::test, under SpecProbe *)

(* C4: the collider test is invoked only if the AABB test passed: for two   *)
(* volumes whose AABBs are disjoint it is never invoked.                    *)
C4_ColliderTestOnlyAfterAabbPass ==
    probe.some =>
        (probe.out.collider_called => test_aabb(probe.self.aabb, probe.other.aabb))

(* C5: test(a, b) is true exactly when the AABBs overlap and the collider   *)
(* test is true; it is false whenever the AABBs are disjoint.               *)
C5_TestIsAabbAndCollider ==
    probe.some =>
        probe.out.result = (/\ test_aabb(probe.self.aabb, probe.other.aabb)
                            /\ CachedColliderTest(probe.self.collider, probe.other.collider))

-----------------------------------------------------------------------------
(* Properties of GridCollisionSystem::update, under SpecGrid *)

Paired(a, b) == <<a, b>> \in collisions \/ <<b, a>> \in collisions

(* every two distinct stored volumes that overlap and test true are paired *)
C2_Complete ==
    \A i \in 1..Len(components), j \in 1..Len(components) :
        (/\ i # j
         /\ test_aabb(components[i].aabb, components[j].aabb)
         /\ BoundVolumeTest(components[i], components[j]).result)
        => Paired(components[i].entity, components[j].entity)

(* C2: after update, every two distinct stored volumes whose AABBs overlap  *)
(* and for which BoundVolume::test is true have their entities' pair in     *)
(* collisions, in one of its two orientations.                              *)
C2_UpdateFindsEveryOverlap == [][GridUpdate => C2_Complete']_vars

(* every recorded pair is two distinct stored entities with overlapping AABBs *)
C10_Sound ==
    \A pair \in collisions :
        /\ pair[1] # pair[2]
        /\ Get(CurrentStore, pair[1]).some
        /\ Get(CurrentStore, pair[2]).some
        /\ test_aabb(Get(CurrentStore, pair[1]).value.aabb,
                     Get(CurrentStore, pair[2]).value.aabb)

(* C10: after update, every pair in collisions consists of two distinct     *)
(* entities that both hold a bound volume and whose AABBs overlap; volumes  *)
(* with disjoint AABBs never produce a pair.                                *)
C10_UpdateReportsOnlyOverlaps == [][GridUpdate => C10_Sound']_vars

-----------------------------------------------------------------------------
(* the cells update visits for the volume in `slot` at the current cell_size *)
VisitedCells(slot) ==
    LET aabb == components[slot].aabb
        cells == IterCells(iter_to(world_to_grid(cell_size, aabb.min),
                                   world_to_grid(cell_size, aabb.max)))
    IN  {cells[k] : k \in 1..Len(cells)}

(* C11: a colliding pair is reported once per update: the pair set never    *)
(* holds both (a, b) and (b, a) for two entities a and b, also when their   *)
(* volumes meet in several cells.                                           *)
C11_PairReportedOnce ==
    \A a \in Entities, b \in Entities :
        a # b => ~(<<a, b>> \in collisions /\ <<b, a>> \in collisions)

(* an update has reported a pair whose volumes were registered together in  *)
(* two or more cells                                                        *)
C11_Witness ==
    /\ last_op.op = "update"
    /\ \E pair \in collisions :
          /\ pair[1] \in DOMAIN indices
          /\ pair[2] \in DOMAIN indices
          /\ Cardinality(VisitedCells(indices[pair[1]])
                            \cap VisitedCells(indices[pair[2]])) >= 2

(* slots a and b hold the pair with overlapping boxes, slot c a volume      *)
(* whose box overlaps neither                                               *)
ThreeInARow(a, b, c) ==
    /\ {a, b, c} = 1..3
    /\ test_aabb(components[a].aabb, components[b].aabb)
    /\ ~test_aabb(components[a].aabb, components[c].aabb)
    /\ ~test_aabb(components[b].aabb, components[c].aabb)

(* the pair of the entities in slots a and b is reported, no pair of c is *)
OnlyPair(pairs, a, b, c) ==
    /\ <<entities[a], entities[b]>> \in pairs \/ <<entities[b], entities[a]>> \in pairs
    /\ \A pair \in pairs : pair[1] # entities[c] /\ pair[2] # entities[c]

(* C12: three entities in a row on the x axis of which only A and B have    *)
(* overlapping boxes: update reports the pair of A and B and no pair with   *)
(* C, in every storage order and at every position against the cell        *)
(* boundaries.                                                              *)
C12_ThreeInARowOnlyPair ==
    [][(GridUpdate /\ Len(components) = 3) =>
          \A a \in 1..3, b \in 1..3, c \in 1..3 :
              ThreeInARow(a, b, c) => OnlyPair(collisions', a, b, c)]_vars

(* the pairs a newly constructed system with the same cell_size reports for *)
(* the volumes now stored                                                   *)
FreshPairs == UpdateVolumes([grid |-> EmptyMap, collisions |-> {}], 1).collisions

(* C13: the pair set update leaves is a function of the stored volumes and  *)
(* cell_size alone: whatever frames came before, it is the set a fresh      *)
(* system reports, and pairs of earlier frames that no longer collide are   *)
(* gone.                                                                    *)
C13_PairsIndependentOfHistory ==
    last_op.op = "update" => collisions = FreshPairs

(* an update after earlier frames: cells are left from them, a pair they    *)
(* reported is gone and another pair is reported                            *)
C13_Witness ==
    /\ last_op.op = "update"
    /\ last_op.dropped
    /\ DOMAIN grid # {}
    /\ collisions # {}

(* C14: between updates, and before the first, every cell of the grid has   *)
(* an empty occupant list; only the cell keys stay.                         *)
C14_CellsEmptyBetweenUpdates ==
    \A cell \in DOMAIN grid : grid[cell] = <<>>

(* an update that registered volumes has returned: its cells are kept *)
C14_Witness ==
    /\ last_op.op = "update"
    /\ Len(components) >= 2
    /\ DOMAIN grid # {}

-----------------------------------------------------------------------------
(* what a completed pass over `colliders` and `transforms` owes entity e:   *)
(* one volume, holding the local collider carried to world space and the    *)
(* box of that; in its old slot with its entity field untouched when e had  *)
(* a volume before, in a slot appended by assign otherwise                  *)
Rebuilt(before, after, colliders, transforms, e) ==
    /\ Cardinality({i \in 1..Len(after.entities) : after.entities[i] = e}) = 1
    /\ Cardinality({i \in 1..Len(after.components) : after.components[i].entity = e}) = 1
    /\ Get(after, e).some
    /\ Get(after, e).value.collider = FromColliderTransform(colliders[e], transforms[e])
    /\ Get(after, e).value.aabb = AABBFromCollider(Get(after, e).value.collider)
    /\ IF e \in DOMAIN before.indices
       THEN /\ after.indices[e] = before.indices[e]
            /\ Get(after, e).value.entity = Get(before, e).value.entity
       ELSE /\ after.indices[e] > Len(before.components)
            /\ Get(after, e).value.entity = e

(* C15: when bvh_update completes, every entity the collider provider       *)
(* yielded holds exactly one BoundVolume, whose collider is its local       *)
(* collider in world space and whose aabb is from_collider of that; an      *)
(* entity that had a volume keeps the slot with aabb and collider           *)
(* overwritten, a new one gets its volume through assign.  Stated of the    *)
(* pass the next call runs from any reachable store, for every state of     *)
(* the two providers.                                                       *)
C15_EveryColliderRebuilt ==
    ~panicked =>
    \A colliders \in ColliderStates :
        \A missing \in SUBSET DOMAIN colliders, order \in Orders(DOMAIN colliders) :
            \A out \in {BvhRun(CurrentStore, colliders, TransformState(missing), order)} :
                ~out.panicked =>
                    \A e \in DOMAIN colliders :
                        Rebuilt(CurrentStore, out.store, colliders,
                                TransformState(missing), e)

(* a completed pass has overwritten the volume of one entity and assigned   *)
(* one to another                                                           *)
C15_Witness ==
    /\ last_op.op = "bvh_update"
    /\ ~panicked
    /\ last_op.updated # {}
    /\ last_op.created # {}

(* C16: bvh_update removes no BoundVolume: the store never gets shorter,    *)
(* every stored entity stays stored, and an entity the collider provider    *)
(* no longer yields keeps the volume it had.  Stated of the pass the next   *)
(* call runs from any reachable store, completed or stopped by a failure.   *)
C16_RebuildNeverRemoves ==
    ~panicked =>
    \A colliders \in ColliderStates :
        \A missing \in SUBSET DOMAIN colliders, order \in Orders(DOMAIN colliders) :
            \A out \in {BvhRun(CurrentStore, colliders, TransformState(missing), order)} :
                /\ Len(out.store.components) >= Len(components)
                /\ Len(out.store.entities) >= Len(entities)
                /\ \A e \in DOMAIN indices :
                      /\ e \in DOMAIN out.store.indices
                      /\ e \notin DOMAIN colliders =>
                             Get(out.store, e) = Get(CurrentStore, e)

(* a completed pass has left alone a stored entity that it was not given a  *)
(* collider for, while giving another entity a volume                       *)
C16_Witness ==
    /\ last_op.op = "bvh_update"
    /\ ~panicked
    /\ last_op.created # {}
    /\ DOMAIN indices \ (last_op.created \cup last_op.updated) # {}

-----------------------------------------------------------------------------
(* get(e), and get_mut(e) alike, in the state a step leads to *)
GetAfter(e) == Get(Store(components', entities', indices'), e)

(* a step changes what get returns for the entities of `touched` at most *)
GetKeptExcept(touched) ==
    \A o \in Entities \ touched : GetAfter(o) = Get(CurrentStore, o)

(* C17: get(e) and get_mut(e) return a component exactly when e was         *)
(* assigned and not since removed by a flush, and it is e's own: the value  *)
(* assigned or the one last written through get_mut, whatever assigns and   *)
(* swap-removals of other entities happened in between.  Stated step by     *)
(* step: nothing is returned at first; assign(e, c) makes get(e) return c;  *)
(* a write of c through get_mut(e) makes it return c when e is stored and   *)
(* nothing otherwise; a flush makes it return nothing for the marked        *)
(* entities; and no step changes what get returns for any other entity.     *)
C17_GetReturnsOwnComponent ==
    /\ \A e \in Entities : ~Get(CurrentStore, e).some
    /\ [][/\ \A e \in Entities : \A c \in StoreVolumes(e) :
                /\ (Assign(e, c) /\ ~panicked') =>
                       /\ ~Get(CurrentStore, e).some
                       /\ GetAfter(e) = Some(c)
                       /\ GetKeptExcept({e})
                /\ (Assign(e, c) /\ panicked') => GetKeptExcept({})
                /\ GetMutWrite(e, c) =>
                       /\ GetAfter(e) = IF Get(CurrentStore, e).some THEN Some(c) ELSE None
                       /\ GetKeptExcept({e})
          /\ \A e \in Entities : DestroyAll(e) => GetKeptExcept({})
          /\ DestroyMarked =>
                /\ \A e \in marked_for_destroy : GetAfter(e) = None
                /\ GetKeptExcept(marked_for_destroy)]_vars

(* entity 3 was moved into the slot of a removed entity and a component    *)
(* was then written through get_mut: get returns to entities 3 and 2 their  *)
(* own, different, components and nothing to entity 1                       *)
C17_Witness ==
    /\ last_op = [op |-> "get_mut", wrote |-> TRUE]
    /\ entities = <<3, 2>>
    /\ Get(CurrentStore, 3).some
    /\ Get(CurrentStore, 3).value.entity = 3
    /\ Get(CurrentStore, 2).value.entity = 2
    /\ Get(CurrentStore, 3).value.collider # Get(CurrentStore, 2).value.collider
    /\ ~Get(CurrentStore, 1).some

(* destroy_immediate(e) on the store as it is: e sits in slot i of n *)
SwapRemoved(e) ==
    LET i == indices[e]
        n == Len(entities)
    IN  \A after \in {DestroyImmediate(CurrentStore, e)} :
            /\ Len(after.entities) = n - 1
            /\ Len(after.components) = n - 1
            /\ DOMAIN after.indices = DOMAIN indices \ {e}
            /\ i # n =>
                  /\ after.entities[i] = entities[n]
                  /\ after.components[i] = components[n]
                  /\ after.indices[entities[n]] = i
            /\ \A k \in 1..(n - 1) :
                  k # i =>
                     /\ after.entities[k] = entities[k]
                     /\ after.components[k] = components[k]
                     /\ after.indices[entities[k]] = k

(* C18: removing slot i by swap-with-last: when i is not the final slot the *)
(* entity that was last is now in slot i, with its own component, and its   *)
(* index is i, while every other remaining entity keeps slot, component and *)
(* index; when i is the final slot nothing changes for the remaining        *)
(* entities.  Stated of destroy_immediate applied to any stored entity of   *)
(* any reachable store.                                                     *)
C18_SwapWithLastRemoval ==
    \A e \in DOMAIN indices : SwapRemoved(e)

(* a flush has removed the entity of the first of three slots: the entity   *)
(* that was last holds that slot under index 1, the middle one stayed       *)
C18_Witness ==
    /\ last_op = [op |-> "destroy_marked", marked |-> {2}]
    /\ entities = <<3, 1>>
    /\ indices[3] = 1
    /\ indices[1] = 2
    /\ components[1].entity = 3
    /\ components[2].entity = 1

(* a traversal yields every stored entity once, at its slot, with the       *)
(* component get returns for it, and nothing else                           *)
IterYieldsStore ==
    \A items \in {StoreIter(CurrentStore)} :
        /\ Len(items) = Len(entities)
        /\ Len(items) = Cardinality(DOMAIN indices)
        /\ \A i \in 1..Len(items) : items[i] = <<components[i], entities[i]>>
        /\ \A e \in DOMAIN indices :
              /\ {i \in 1..Len(items) : items[i][2] = e} = {indices[e]}
              /\ items[indices[e]][1] = Get(CurrentStore, e).value

(* C19: iter() yields (components[i], entities[i]) for the slots in order,  *)
(* each stored entity once with its own component; assign appends at the    *)
(* end of the traversal, so without removals the traversal follows the      *)
(* order of assignment.  The traversal is a finite sequence determined by   *)
(* the store, so a new traversal of an unchanged store yields the same.     *)
C19_IterInSlotOrder ==
    /\ []IterYieldsStore
    /\ [][\A e \in Entities : \A c \in StoreVolumes(e) :
              (Assign(e, c) /\ ~panicked') =>
                  StoreIter(Store(components', entities', indices')) =
                      Append(StoreIter(CurrentStore), <<c, e>>)]_vars

(* three assigns, to entities 2, 3 and 1 in this order, and the traversal   *)
(* yields them in this order                                                *)
C19_Witness ==
    /\ last_op = [op |-> "assign", entity |-> 1]
    /\ Len(StoreIter(CurrentStore)) = 3
    /\ StoreIter(CurrentStore)[1][2] = 2
    /\ StoreIter(CurrentStore)[2][2] = 3
    /\ StoreIter(CurrentStore)[3][2] = 1
    /\ ~panicked

-----------------------------------------------------------------------------
(* C20: from_collider of a Sphere with this centre and radius returns the   *)
(* box with min = centre - (r, r, r) and max = centre + (r, r, r); for the  *)
(* centre (0, 0, 0) and radius 2 that is (-2, -2, -2) to (2, 2, 2).         *)
C20_SphereBox ==
    probe.some =>
        LET center == probe.collider.center
            r == probe.collider.radius
        IN  /\ probe.out.min = Point(center.x - r, center.y - r, center.z - r)
            /\ probe.out.max = Point(center.x + r, center.y + r, center.z + r)
            /\ (center = Point(0, 0, 0) /\ r = 2) =>
                   probe.out = [min |-> Point(-2, -2, -2), max |-> Point(2, 2, 2)]

(* from_collider has returned for the sphere of radius 2 at the origin *)
C20_Witness ==
    /\ last_op.op = "from_collider"
    /\ probe.some
    /\ probe.collider = Sphere(Point(0, 0, 0), 2)
    /\ probe.out.min.x = -2
    /\ probe.out.max.z = 2

-----------------------------------------------------------------------------
(* cell is the floor of coord / size: the cell-th interval of length size   *)
(* holds coord                                                              *)
IsFloorCell(cell, coord, size) ==
    /\ cell * size <= coord
    /\ coord < (cell + 1) * size

(* C21: world_to_grid maps each coordinate to floor(coord / cell_size),     *)
(* toward negative infinity and not toward zero: a coordinate in            *)
(* [-cell_size, 0) maps to cell -1, and with cell_size 1.0 the point        *)
(* (1.5, -0.5, 2.0), in halves (3, -1, 4) with cell size 2, maps to         *)
(* (1, -1, 2).                                                              *)
C21_FloorTowardNegativeInfinity ==
    probe.some =>
        /\ IsFloorCell(probe.out.x, probe.point.x, probe.size)
        /\ IsFloorCell(probe.out.y, probe.point.y, probe.size)
        /\ IsFloorCell(probe.out.z, probe.point.z, probe.size)
        /\ (-probe.size <= probe.point.x /\ probe.point.x < 0) => probe.out.x = -1
        /\ (-probe.size <= probe.point.y /\ probe.point.y < 0) => probe.out.y = -1
        /\ (-probe.size <= probe.point.z /\ probe.point.z < 0) => probe.out.z = -1
        /\ (probe.size = 2 /\ probe.point = Point(3, -1, 4)) =>
               probe.out = GridCell(1, -1, 2)

(* world_to_grid has returned for the point (1.5, -0.5, 2.0) at cell size   *)
(* 1.0, whose y lies in [-cell_size, 0)                                     *)
C21_Witness ==
    /\ last_op.op = "world_to_grid"
    /\ probe.some
    /\ probe.size = 2
    /\ probe.point = Point(3, -1, 4)
    /\ probe.out.y = -1

-----------------------------------------------------------------------------
(* the pass over `order` reaches position k: no entity before it lacks a    *)
(* transform or has a Box or Mesh collider                                  *)
Reaches(colliders, transforms, order, k) ==
    \A j \in 1..(k - 1) :
        order[j] \in DOMAIN transforms /\ ~Unsupported(colliders[order[j]])

(* the pass has left the entities at the positions from k on as they were *)
UntouchedFrom(out, order, k) ==
    \A j \in k..Len(order) :
        /\ Get(out.store, order[j]) = Get(CurrentStore, order[j])
        /\ order[j] \notin out.created \cup out.updated

(* C22: a Box or Mesh collider is an unsupported-operation failure that is  *)
(* fatal for the step: bvh_update stops at that entity, and no BoundVolume  *)
(* is assigned or overwritten for it.  Stated of the pass the next call     *)
(* runs from any reachable store, for every state of the two providers.     *)
C22_UnsupportedShapeIsFatal ==
    ~panicked =>
    \A colliders \in ColliderStates :
        \A missing \in SUBSET DOMAIN colliders, order \in Orders(DOMAIN colliders) :
            \A out \in {BvhRun(CurrentStore, colliders, TransformState(missing), order)} :
                \A k \in 1..Len(order) :
                    (/\ Reaches(colliders, TransformState(missing), order, k)
                     /\ order[k] \notin missing
                     /\ Unsupported(colliders[order[k]])) =>
                        /\ out.panicked
                        /\ out.failed = Some([entity |-> order[k], cause |-> "shape"])
                        /\ UntouchedFrom(out, order, k)

(* a pass has overwritten one volume and then stopped at an entity with a   *)
(* Box or Mesh collider, which holds no volume                              *)
C22_Witness ==
    /\ last_op.op = "bvh_update"
    /\ panicked
    /\ last_op.failed.some
    /\ last_op.failed.value.cause = "shape"
    /\ last_op.updated # {}
    /\ last_op.failed.value.entity \notin DOMAIN indices

(* C23: bvh_update passes over no entity of the collider provider in        *)
(* silence: a pass that completes has found the transform of every yielded  *)
(* entity and created or updated its BoundVolume; a missing transform stops *)
(* the step at that entity; and in any pass an entity is without a new or   *)
(* updated volume only if the step has failed.                              *)
C23_NoSilentSkip ==
    ~panicked =>
    \A colliders \in ColliderStates :
        \A missing \in SUBSET DOMAIN colliders, order \in Orders(DOMAIN colliders) :
            \A out \in {BvhRun(CurrentStore, colliders, TransformState(missing), order)} :
                /\ ~out.panicked =>
                      /\ missing = {}
                      /\ out.created \cup out.updated = DOMAIN colliders
                      /\ \A e \in DOMAIN colliders : Get(out.store, e).some
                /\ \A e \in DOMAIN colliders :
                      e \notin out.created \cup out.updated => out.panicked
                /\ \A k \in 1..Len(order) :
                      (/\ Reaches(colliders, TransformState(missing), order, k)
                       /\ order[k] \in missing) =>
                          /\ out.panicked
                          /\ out.failed = Some([entity |-> order[k], cause |-> "transform"])
                          /\ UntouchedFrom(out, order, k)

(* a pass has created one volume and then stopped at a stored entity whose  *)
(* transform is missing                                                     *)
C23_Witness ==
    /\ last_op.op = "bvh_update"
    /\ panicked
    /\ last_op.failed.some
    /\ last_op.failed.value.cause = "transform"
    /\ last_op.created # {}
    /\ last_op.failed.value.entity \in DOMAIN indices

-----------------------------------------------------------------------------
(* the cells of the inclusive range of the volume in `slot` at the current  *)
(* cell_size                                                                *)
RangeCells(slot) ==
    Cuboid(world_to_grid(cell_size, components[slot].aabb.min),
           world_to_grid(cell_size, components[slot].aabb.max))

(* the volume in `slot` is among the occupants of `cell` *)
RegisteredIn(populated, slot, cell) ==
    /\ cell \in DOMAIN populated
    /\ \E k \in 1..Len(populated[cell]) :
          populated[cell][k] = <<components[slot].entity, slot>>

(* C24: during update every processed volume is registered in every cell    *)
(* of its inclusive range [cell(aabb.min), cell(aabb.max)], a volume whose  *)
(* box lies inside one cell in that cell.  Stated of the grid as the update *)
(* of the current store has populated it when its outer loop ends.          *)
C24_RegisteredInWholeRange ==
    \A populated \in {UpdatePopulated.grid} :
        \A slot \in 1..Len(components) :
            \A cell \in RangeCells(slot) : RegisteredIn(populated, slot, cell)

-----------------------------------------------------------------------------
(* a comes before b in lexicographic (x, y, z) order *)
LexLess(a, b) ==
    \/ a.x < b.x
    \/ a.x = b.x /\ a.y < b.y
    \/ a.x = b.x /\ a.y = b.y /\ a.z < b.z

(* b follows a with z advanced, or else y advanced and z back at its start, *)
(* or else x advanced and y and z back at their starts                      *)
ZFastestStep(from, a, b) ==
    \/ b = GridCell(a.x, a.y, a.z + 1)
    \/ b = GridCell(a.x, a.y + 1, from.z)
    \/ b = GridCell(a.x + 1, from.y, from.z)

(* C25: the cells min_cell.iter_to(max_cell) yields come in a fixed order   *)
(* with z varying fastest, then y, then x: the sequence yielded so far is   *)
(* strictly increasing in lexicographic (x, y, z) order.                    *)
C25_YieldedInLexOrder ==
    iter.some =>
        \A k \in 1..(Len(iter.yielded) - 1) :
            /\ LexLess(iter.yielded[k], iter.yielded[k + 1])
            /\ ZFastestStep(iter.it.from, iter.yielded[k], iter.yielded[k + 1])

(* an iteration has ended after yielding cells along all three axes *)
C25_Witness ==
    /\ iter.some
    /\ iter.done
    /\ \E i, j, k \in 1..(Len(iter.yielded) - 1) :
          /\ iter.yielded[i + 1].z > iter.yielded[i].z
          /\ iter.yielded[j + 1].y > iter.yielded[j].y
          /\ iter.yielded[k + 1].x > iter.yielded[k].x

-----------------------------------------------------------------------------
(* every occupant <<entity, slot>> of every cell of `cells` points at a     *)
(* slot of the store that holds the volume of that entity                   *)
HandlesValid(cells) ==
    \A cell \in DOMAIN cells :
        \A k \in 1..Len(cells[cell]) :
            /\ cells[cell][k][2] \in 1..Len(components)
            /\ components[cells[cell][k][2]].entity = cells[cell][k][1]
            /\ entities[cells[cell][k][2]] = cells[cell][k][1]

(* C26: every (entity, handle) held in a grid cell refers to a bound volume *)
(* stored in the manager: update only reads the manager's arrays, and as    *)
(* the cells are emptied before it returns no handle is left in a state in  *)
(* which assign or destroy_marked can move or remove the volume.  Stated of *)
(* the grid between the operations, of the grid an update of the current    *)
(* store populates, and of the store across an update.                      *)
C26_HandlesReferToStoredVolumes ==
    /\ [](/\ HandlesValid(grid)
          /\ \A populated \in {UpdatePopulated.grid} : HandlesValid(populated))
    /\ [][last_op'.op = "update" =>
              UNCHANGED <<components, entities, indices, marked_for_destroy>>]_vars

(* an update has registered volumes in cells it keeps, and a flush has then *)
(* removed a volume and moved another into its slot                         *)
C26_Witness ==
    /\ DOMAIN grid # {}
    /\ last_op.op = "destroy_marked"
    /\ last_op.marked # {}
    /\ Len(entities) = 2
    /\ entities[1] = 3

-----------------------------------------------------------------------------
(* Properties of the pending set *)

(* C27: destroy_marked leaves the pending set empty, so a destroy_marked    *)
(* that finds it empty (a second one with no destroy_all in between)        *)
(* changes nothing; an entity enters the pending set only by a destroy_all  *)
(* of it and leaves the store only by a destroy_marked while pending, so an *)
(* entity that a flush removed and that was assigned again is removed by a  *)
(* later flush only if it was marked again.                                 *)
C27_FlushLeavesNothingPending ==
    [][/\ DestroyMarked =>
             /\ marked_for_destroy' = {}
             /\ marked_for_destroy = {} => UNCHANGED <<components, entities, indices>>
       /\ last_op.op = "destroy_marked" /\ DestroyMarked =>
             UNCHANGED <<components, entities, indices, marked_for_destroy>>
       /\ \A e \in marked_for_destroy' \ marked_for_destroy : DestroyAll(e)
       /\ \A e \in DOMAIN indices \ DOMAIN indices' :
             DestroyMarked /\ e \in marked_for_destroy]_vars

(* entity 1 was removed by a flush and assigned again behind entity 2, and  *)
(* a flush with nothing pending has left both                               *)
C27_Witness ==
    /\ last_op = [op |-> "destroy_marked", marked |-> {}]
    /\ entities = <<2, 1>>
    /\ Get(CurrentStore, 1).some
    /\ marked_for_destroy = {}

(* C28: destroy_all(e) on an entity that holds no component changes nothing *)
(* and records nothing: no entity without a component is ever pending, an   *)
(* entity becomes pending only by a destroy_all of it while it holds one,   *)
(* and so an entity that has just been assigned, whatever destroy_all calls *)
(* came before, is not pending and no outcome of the next destroy_marked    *)
(* removes it.                                                              *)
C28_MarkOfAbsentRecordsNothing ==
    /\ [](/\ \A e \in Entities \ DOMAIN indices : e \notin marked_for_destroy
          /\ (last_op.op = "assign" /\ ~panicked) =>
                /\ last_op.entity \notin marked_for_destroy
                /\ \A after \in DestroyMarkedOutcomes(CurrentStore, marked_for_destroy) :
                      /\ Get(after, last_op.entity).some
                      /\ Get(after, last_op.entity) = Get(CurrentStore, last_op.entity))
    /\ [][/\ \A e \in Entities \ DOMAIN indices :
                DestroyAll(e) =>
                    UNCHANGED <<components, entities, indices, marked_for_destroy, panicked>>
          /\ \A e \in marked_for_destroy' \ marked_for_destroy :
                e \in DOMAIN indices /\ DestroyAll(e)]_vars

(* destroy_all has been called on entity 1, which holds no component, while *)
(* another entity is stored and pending: entity 1 is not pending            *)
C28_Witness ==
    /\ last_op = [op |-> "destroy_all", entity |-> 1]
    /\ 1 \notin DOMAIN indices
    /\ 1 \notin marked_for_destroy
    /\ marked_for_destroy # {}
    /\ Len(entities) = 2

(* C29: after any sequence of assign, destroy_all, destroy_marked and the   *)
(* public destroy_immediate every pending entity holds a component, and so  *)
(* destroy_marked never fails on a pending entity that is missing from      *)
(* indices.                                                                 *)
C29_PendingEntitiesAreStored ==
    /\ marked_for_destroy \subseteq DOMAIN indices
    /\ last_op.op = "destroy_marked" => ~panicked

(* the (component, entity) associations of a store, slots forgotten *)
Associations(store) == {StoreIter(store)[i] : i \in DOMAIN StoreIter(store)}

(* the store invariant of C1, of a store value *)
StoreInvariant(store) ==
    /\ Len(store.entities) = Len(store.components)
    /\ DOMAIN store.indices = {store.entities[i] : i \in 1..Len(store.entities)}
    /\ Cardinality(DOMAIN store.indices) = Len(store.entities)
    /\ \A i \in 1..Len(store.entities) : store.indices[store.entities[i]] = i

(* every store the drain of destroy_marked passes through: the store after  *)
(* each individual removal, for every order of the pending entities         *)
RECURSIVE DrainStores(_, _)
DrainStores(store, marked) ==
    {store} \cup UNION {DrainStores(DestroyImmediate(store, e), marked \ {e}) :
                           e \in marked \cap DOMAIN store.indices}

(* C30: whatever the order in which destroy_marked processes the pending    *)
(* entities, the surviving (entity, component) associations are those of    *)
(* the entities that were not pending (only their slots depend on the       *)
(* order), and the store invariant holds after each individual removal,     *)
(* also when the entity in the final slot is pending.                       *)
C30_RemovalOrderIrrelevant ==
    /\ \A after \in DestroyMarkedOutcomes(CurrentStore, marked_for_destroy) :
          Associations(after)
              = {a \in Associations(CurrentStore) : a[2] \notin marked_for_destroy}
    /\ \A mid \in DrainStores(CurrentStore, marked_for_destroy) : StoreInvariant(mid)
    /\ last_op.op = "destroy_marked" =>
          /\ StoreInvariant(CurrentStore)
          /\ \A e \in last_op.marked : ~Get(CurrentStore, e).some

(* a flush of two of four entities has left the other two, in the slots one *)
(* of the two orders of removal leaves them in                              *)
C30_Witness ==
    /\ last_op = [op |-> "destroy_marked", marked |-> {1, 2}]
    /\ entities = <<3, 4>>
    /\ Get(CurrentStore, 3).some
    /\ Get(CurrentStore, 4).some

-----------------------------------------------------------------------------
(* Properties of the pairs update reports, with a store that gains and      *)
(* loses volumes                                                            *)

(* C31: every pair update records is (entity of the volume processed later, *)
(* entity of the volume processed earlier) in the storage order of the      *)
(* manager, and no volume is tested against itself: the collision set      *)
(* holds no pair (e, e).                                                    *)
C31_PairsOrientedLaterEarlier ==
    last_op.op = "update" =>
        \A pair \in collisions :
            /\ pair[1] # pair[2]
            /\ pair[1] \in DOMAIN indices
            /\ pair[2] \in DOMAIN indices
            /\ indices[pair[1]] > indices[pair[2]]
            /\ components[indices[pair[1]]].entity = pair[1]
            /\ components[indices[pair[2]]].entity = pair[2]

(* an update of a store whose slot order is not the order of the handles    *)
(* (entity 3 in slot 1, entity 2 in slot 2) has reported the pair (2, 3)    *)
C31_Witness ==
    /\ last_op.op = "update"
    /\ entities = <<3, 2>>
    /\ collisions = {<<2, 3>>}

(* the set of the stored volumes, slots forgotten *)
StoredVolumes == {components[i] : i \in 1..Len(components)}

(* the cells the loop of line 69 visits for a volume *)
CellsVisitedFor(volume) ==
    LET cells == IterCells(iter_to(world_to_grid(cell_size, volume.aabb.min),
                                   world_to_grid(cell_size, volume.aabb.max)))
    IN  {cells[k] : k \in 1..Len(cells)}

UnorderedPairs(pairs) == {{pair[1], pair[2]} : pair \in pairs}

(* the unordered pairs of a set of volumes: two volumes that are visited in *)
(* a common cell and of which one tests positive against the other          *)
PairsOfVolumeSet(volumes) ==
    {{q[1].entity, q[2].entity} :
        q \in {r \in volumes \X volumes :
                  /\ r[1] # r[2]
                  /\ CellsVisitedFor(r[1]) \cap CellsVisitedFor(r[2]) # {}
                  /\ BoundVolumeTest(r[1], r[2]).result}}

(* C32: the unordered entity pairs update reports are a function of the set *)
(* of stored volumes, whatever slots they are stored in: every permutation  *)
(* of the same volumes gives the same unordered pairs.                      *)
C32_PairsIndependentOfStorageOrder ==
    last_op.op = "update" =>
        UnorderedPairs(collisions) = PairsOfVolumeSet(StoredVolumes)

(* an update of the store <<3, 1, 2>> in which the volumes of entities 1    *)
(* and 3 collide and that of entity 2 is apart: the pair is reported as     *)
(* (1, 3), the later slot first                                             *)
C32_Witness ==
    /\ last_op.op = "update"
    /\ entities = <<3, 1, 2>>
    /\ collisions = {<<1, 3>>}
    /\ PairsOfVolumeSet(StoredVolumes) = {{1, 3}}

(* C33: update reads the arrays of the manager and never the pending set.   *)
(* The volume of an entity that is marked and not yet flushed is visited    *)
(* like any other: its cells are in the grid and it is reported with every  *)
(* volume it meets.  Every entity of a reported pair is stored at the time  *)
(* of the update, so an entity destroy_marked has removed is in no pair of  *)
(* any later update.                                                        *)
C33_MarkedVisitedUntilFlushed ==
    last_op.op = "update" =>
        /\ \A e \in marked_for_destroy :
              /\ e \in DOMAIN indices
              /\ CellsVisitedFor(components[indices[e]]) \subseteq DOMAIN grid
              /\ \A other \in DOMAIN indices :
                    {e, other} \in PairsOfVolumeSet(StoredVolumes) => Paired(e, other)
        /\ \A pair \in collisions, e \in Entities \ DOMAIN indices :
              pair[1] # e /\ pair[2] # e

(* an update has reported a pair with entity 1, which is pending removal;   *)
(* the grid still has cells of a volume that an earlier update visited and  *)
(* a flush has since removed, and no pair holds an entity that is not       *)
(* stored                                                                   *)
C33_Witness ==
    /\ last_op.op = "update"
    /\ marked_for_destroy = {1}
    /\ entities = <<2, 1>>
    /\ collisions = {<<1, 2>>}
    /\ DOMAIN grid # UNION {CellsVisitedFor(v) : v \in StoredVolumes}

-----------------------------------------------------------------------------
(* Properties of the volumes bvh_update stores *)

(* C34: after any sequence of bvh_update, destroy_all and destroy_marked    *)
(* the entity field of the volume in each slot is the owner the entities    *)
(* array records for that slot, components[i].entity = entities[i]: the     *)
(* entity update reads from a volume is the one that owns it in the store.  *)
C34_VolumeEntityIsSlotOwner ==
    /\ Len(components) = Len(entities)
    /\ \A i \in 1..Len(components) :
          /\ components[i].entity = entities[i]
          /\ Get(CurrentStore, entities[i]) = Some(components[i])

(* bvh_update has built three volumes and a flush has removed that of       *)
(* entity 1 from slot 1, moving the volume of entity 3 there with its owner *)
C34_Witness ==
    /\ last_op = [op |-> "destroy_marked", marked |-> {1}]
    /\ entities = <<3, 2>>
    /\ components[1].entity = 3
    /\ components[2].entity = 2

-----------------------------------------------------------------------------
(* Properties of test_aabb, under SpecOverlap *)

(* the closed ranges [a.min, a.max] and [b.min, b.max] share a point on the *)
(* axis                                                                     *)
RangesMeet(a, b, axis) ==
    LET lo(p) == IF axis = 1 THEN p.x ELSE IF axis = 2 THEN p.y ELSE p.z
    IN  lo(a.min) <= lo(b.max) /\ lo(b.min) <= lo(a.max)

(* a ends on some axis exactly where b begins, and the two overlap on the   *)
(* other axes                                                               *)
Touching(a, b) ==
    \E axis \in 1..3 :
        /\ (IF axis = 1 THEN a.max.x = b.min.x
            ELSE IF axis = 2 THEN a.max.y = b.min.y ELSE a.max.z = b.min.z)
        /\ \A o \in (1..3) \ {axis} : RangesMeet(a, b, o)

(* C35: test_aabb is symmetric, test_aabb(a, b) = test_aabb(b, a), and      *)
(* inclusive of the boundary: two boxes that only touch (a.max = b.min on   *)
(* one axis, overlapping on the other two) test as overlapping; the result  *)
(* is that of the closed boxes sharing a point.                             *)
C35_TestAabbSymmetricInclusive ==
    (probe.some /\ last_op.op = "test_aabb") =>
        /\ probe.out = probe.back
        /\ Touching(probe.self, probe.other) => probe.out
        /\ probe.out = (\A axis \in 1..3 : RangesMeet(probe.self, probe.other, axis))

(* two boxes of positive extent that share only the face x = 1 have tested  *)
(* as overlapping, in both directions                                       *)
C35_Witness ==
    /\ probe.some
    /\ last_op.op = "test_aabb"
    /\ probe.self = [min |-> Point(0, 0, 0), max |-> Point(1, 2, 2)]
    /\ probe.other = [min |-> Point(1, 1, 1), max |-> Point(2, 2, 2)]
    /\ probe.out
    /\ probe.back

-----------------------------------------------------------------------------
(* Termination of GridIter, under SpecIterFair *)

(* the cells of the cuboid spanned by two cells of Cells, a bound on what   *)
(* an iteration between them can yield                                      *)
MaxYield == (MaxCell + 1) * (MaxCell + 1) * (MaxCell + 1)

(* C36: for every from and to, also with from beyond to on some axis, a     *)
(* loop over the iterator reaches the call that returns None after a        *)
(* bounded number of cells, and from then on every call returns None and    *)
(* leaves the iterator as it is.                                            *)
C36_IterTerminates ==
    /\ <>(iter.some /\ iter.done)
    /\ [](/\ Len(iter.yielded) < MaxYield
          /\ iter.done => ~GridIterNext(iter.it).item.some)
    /\ [][iter.done => iter' = iter]_vars

(* an iteration with from beyond to on the z axis and short of it on the x  *)
(* axis has yielded cells and ended                                         *)
C36_Witness ==
    /\ iter.some
    /\ iter.done
    /\ iter.it.from.z > iter.it.to.z
    /\ iter.it.from.x < iter.it.to.x
    /\ Len(iter.yielded) >= 2

-----------------------------------------------------------------------------
(* Properties of Clone for GridCollisionSystem, under SpecClone *)

(* C37: the clone of a GridCollisionSystem is a fresh system, whatever the  *)
(* cell_size and the contents of the source: its grid has no cell (and so   *)
(* holds no handle to a bound volume), its collision set is empty and its   *)
(* cell_size is 1.0; the source is left as it was.                          *)
C37_CloneIsNew ==
    /\ [](probe.some =>
             /\ DOMAIN probe.out.grid = {}
             /\ probe.out.collisions = {}
             /\ probe.out.cell_size = 1)
    /\ [][last_op'.op = "clone" =>
              UNCHANGED <<grid, collisions, cell_size, components, entities, indices>>]_vars

(* a system with cell_size 4 that has cells and a reported pair has just    *)
(* been cloned                                                              *)
C37_Witness ==
    /\ probe.some
    /\ last_op.op = "clone"
    /\ cell_size = 4
    /\ DOMAIN grid # {}
    /\ collisions # {}
====
